---- MODULE Spec2Model ----
(***************************************************************************)
(* A model of ais_mqtt_bridge.py: the AISMQTTBridge payload decoder        *)
(* (decode_payload, decode_string), the sentence parser (parse_nmea) and   *)
(* the receive loop (process_message, run).                                *)
(*                                                                         *)
(* Text is a sequence of code points; the string Python calls `binary` is  *)
(* a sequence of the one-character strings "0", "1" and "-".  A Python     *)
(* dict is a record; a call that may raise returns [ok, val].              *)
(***************************************************************************)
EXTENDS Integers, Sequences, FiniteSets, TLC

VARIABLES payload, decoded, binary, text, message, parsed,
          pc, data, received, published, outcomes, bridge

vars == <<payload, decoded, binary, text, message, parsed,
          pc, data, received, published, outcomes, bridge>>

(***************************************************************************)
(* Python values                                                           *)
(***************************************************************************)
None == [py_none |-> TRUE]
Pending == [py_pending |-> TRUE]
IsDict(d) == "msg_type" \in DOMAIN d

Ok(v) == [ok |-> TRUE, val |-> v]
Raised == [ok |-> FALSE, val |-> 0]

Min(a, b) == IF a < b THEN a ELSE b
Max(a, b) == IF a > b THEN a ELSE b

\* s[lo:hi] for 0 <= lo <= hi
Slice(s, lo, hi) ==
    LET h == Min(hi, Len(s))
    IN  IF lo >= h THEN <<>> ELSE SubSeq(s, lo + 1, h)

\* int / float: the quotient as a fraction
Div(n, d) == [num |-> n, den |-> d]

RECURSIVE BinDigits(_)
BinDigits(n) ==
    IF n < 2 THEN <<IF n = 1 THEN "1" ELSE "0">>
    ELSE BinDigits(n \div 2) \o <<IF n % 2 = 1 THEN "1" ELSE "0">>

\* format(v, '06b'): sign, then zeros up to a total width of 6, then digits
Format06b(v) ==
    LET sign == IF v < 0 THEN <<"-">> ELSE <<>>
        digs == BinDigits(IF v < 0 THEN -v ELSE v)
        pad  == Max(0, 6 - Len(sign) - Len(digs))
    IN  sign \o [i \in 1..pad |-> "0"] \o digs

\* the value of a string of binary digits, by halves
RECURSIVE BitsVal(_)
BitsVal(s) ==
    IF Len(s) = 0 THEN 0
    ELSE IF Len(s) = 1 THEN (IF s[1] = "1" THEN 1 ELSE 0)
    ELSE LET h == Len(s) \div 2
         IN  BitsVal(SubSeq(s, 1, h)) * (2 ^ (Len(s) - h)) + BitsVal(SubSeq(s, h + 1, Len(s)))

\* int(s, 2) for s over "0", "1", "-": ValueError unless s is -?[01]+
IntBase2(s) ==
    LET neg  == Len(s) > 0 /\ s[1] = "-"
        body == IF neg THEN Tail(s) ELSE s
    IN  IF Len(body) = 0 \/ \E i \in 1..Len(body) : body[i] \notin {"0", "1"}
        THEN Raised
        ELSE Ok(IF neg THEN -BitsVal(body) ELSE BitsVal(body))

(***************************************************************************)
(* str.strip                                                               *)
(***************************************************************************)
\* the code points str.strip() removes
PyWhitespace ==
    (9..13) \cup (28..32) \cup {133, 160, 5760} \cup (8192..8202)
        \cup {8232, 8233, 8239, 8287, 12288}

RECURSIVE LStrip(_, _)
LStrip(s, chars) ==
    IF Len(s) > 0 /\ s[1] \in chars THEN LStrip(Tail(s), chars) ELSE s

RECURSIVE RStrip(_, _)
RStrip(s, chars) ==
    IF Len(s) > 0 /\ s[Len(s)] \in chars
    THEN RStrip(SubSeq(s, 1, Len(s) - 1), chars) ELSE s

Strip(s, chars) == RStrip(LStrip(s, chars), chars)

(***************************************************************************)
(* decode_string                                                           *)
(***************************************************************************)
Zero6 == <<"0", "0", "0", "0", "0", "0">>

\* char_val of one group: below 32 it is moved up by 64
CharVal(c) == IF c < 32 THEN c + 64 ELSE c

\* the loop of decode_string: the characters up to the break
RECURSIVE DecodeChars(_)
DecodeChars(bin) ==
    IF Len(bin) = 0 THEN Ok(<<>>)
    ELSE LET char_bin == Slice(bin, 0, 6)
             char_val == IntBase2(char_bin)
             rest     == DecodeChars(Slice(bin, 6, Len(bin)))
         IN  IF char_bin = Zero6 THEN Ok(<<>>)
             ELSE IF ~char_val.ok THEN Raised
             ELSE IF ~rest.ok THEN Raised
             ELSE Ok(<<CharVal(char_val.val)>> \o rest.val)

\* StripResult without the second strip()
StripAtOnly(result) == Strip(result, {64})

\* result.strip("@").strip()
StripResult(result) == Strip(Strip(result, {64}), PyWhitespace)

decode_string(bin) ==
    LET result == DecodeChars(bin)
    IN  IF result.ok THEN Ok(StripResult(result.val)) ELSE Raised

(***************************************************************************)
(* decode_payload                                                          *)
(***************************************************************************)
\* ArmorValue without the step over the gap between 'W' and '`'
ArmorValueNoGap(char) == char - 48

\* ord(char) - 48, and 8 less above 40
ArmorValue(char) ==
    LET ord_c == char - 48
    IN  IF ord_c > 40 THEN ord_c - 8 ELSE ord_c

\* the string `binary` built by the first loop: the 6-bit strings of the
\* characters one after the other (joined by halves)
RECURSIVE ToBinary(_)
ToBinary(pl) ==
    IF Len(pl) = 0 THEN <<>>
    ELSE IF Len(pl) = 1 THEN Format06b(ArmorValue(pl[1]))
    ELSE LET h == Len(pl) \div 2
         IN  ToBinary(SubSeq(pl, 1, h)) \o ToBinary(SubSeq(pl, h + 1, Len(pl)))

\* int(binary[lo:hi], 2)
Field(bin, lo, hi) == IntBase2(Slice(bin, lo, hi))

AllOk(parts) == \A i \in 1..Len(parts) : parts[i].ok

\* Longitude with the sign test written > for >=
LongitudeStrictTest(raw_lon) ==
    IF raw_lon > 134217728
    THEN Div(-(268435456 - raw_lon), 600000)
    ELSE Div(raw_lon, 600000)

\* lon: raw_lon / 600000.0, or -(0x10000000 - raw_lon) / 600000.0 from 0x8000000 on
Longitude(raw_lon) ==
    IF raw_lon >= 134217728
    THEN Div(-(268435456 - raw_lon), 600000)
    ELSE Div(raw_lon, 600000)

\* Latitude with the longitude's 28-bit constants
LatitudeAs28Bit(raw_lat) ==
    IF raw_lat >= 134217728
    THEN Div(-(268435456 - raw_lat), 600000)
    ELSE Div(raw_lat, 600000)

\* lat: raw_lat / 600000.0, or -(0x8000000 - raw_lat) / 600000.0 from 0x4000000 on
Latitude(raw_lat) ==
    IF raw_lat >= 67108864
    THEN Div(-(134217728 - raw_lat), 600000)
    ELSE Div(raw_lat, 600000)

\* msg_type in [1, 2, 3]: Position Report Class A
PositionA(bin, msg_type) ==
    LET raw_lon == Field(bin, 61, 89)
        raw_lat == Field(bin, 89, 116)
        repeat  == Field(bin, 6, 8)
        mmsi    == Field(bin, 8, 38)
        nav     == Field(bin, 38, 42)
        rot     == Field(bin, 42, 50)
        sog     == Field(bin, 50, 60)
        acc     == Field(bin, 60, 61)
        cog     == Field(bin, 116, 128)
        head    == Field(bin, 128, 137)
        ts      == Field(bin, 137, 143)
    IN  IF ~AllOk(<<raw_lon, raw_lat, repeat, mmsi, nav, rot, sog, acc, cog, head, ts>>)
        THEN None
        ELSE [msg_type |-> msg_type, repeat |-> repeat.val, mmsi |-> mmsi.val,
              nav_status |-> nav.val, rot |-> rot.val, sog |-> Div(sog.val, 10),
              pos_accuracy |-> (acc.val # 0),
              longitude |-> Longitude(raw_lon.val),
              latitude |-> Latitude(raw_lat.val),
              cog |-> Div(cog.val, 10), true_heading |-> head.val,
              timestamp |-> ts.val]

\* msg_type == 5: Static and Voyage Related Data
StaticVoyage(bin, msg_type) ==
    LET repeat   == Field(bin, 6, 8)
        mmsi     == Field(bin, 8, 38)
        version  == Field(bin, 38, 40)
        imo      == Field(bin, 40, 70)
        callsign == decode_string(Slice(bin, 70, 112))
        shipname == decode_string(Slice(bin, 112, 232))
        ship     == Field(bin, 232, 240)
        bow      == Field(bin, 240, 249)
        stern    == Field(bin, 249, 258)
        port     == Field(bin, 258, 264)
        starb    == Field(bin, 264, 270)
    IN  IF ~AllOk(<<repeat, mmsi, version, imo, callsign, shipname, ship, bow,
                    stern, port, starb>>)
        THEN None
        ELSE [msg_type |-> msg_type, repeat |-> repeat.val, mmsi |-> mmsi.val,
              ais_version |-> version.val, imo |-> imo.val,
              callsign |-> callsign.val, shipname |-> shipname.val,
              ship_type |-> ship.val, to_bow |-> bow.val, to_stern |-> stern.val,
              to_port |-> port.val, to_starboard |-> starb.val]

\* msg_type == 18: Standard Class B Position Report
PositionB(bin, msg_type) ==
    LET raw_lon == Field(bin, 57, 85)
        raw_lat == Field(bin, 85, 112)
        repeat  == Field(bin, 6, 8)
        mmsi    == Field(bin, 8, 38)
        sog     == Field(bin, 46, 56)
        acc     == Field(bin, 56, 57)
        cog     == Field(bin, 112, 124)
        head    == Field(bin, 124, 133)
        ts      == Field(bin, 133, 139)
    IN  IF ~AllOk(<<raw_lon, raw_lat, repeat, mmsi, sog, acc, cog, head, ts>>)
        THEN None
        ELSE [msg_type |-> msg_type, repeat |-> repeat.val, mmsi |-> mmsi.val,
              sog |-> Div(sog.val, 10), pos_accuracy |-> (acc.val # 0),
              longitude |-> Longitude(raw_lon.val),
              latitude |-> Latitude(raw_lat.val),
              cog |-> Div(cog.val, 10), true_heading |-> head.val,
              timestamp |-> ts.val]

\* msg_type == 24: Static Data Report, part_no 0, part_no 1, or neither
StaticData(bin, msg_type) ==
    LET repeat   == Field(bin, 6, 8)
        mmsi     == Field(bin, 8, 38)
        part_no  == Field(bin, 38, 40)
        head     == [msg_type |-> msg_type, repeat |-> repeat.val,
                     mmsi |-> mmsi.val, part_no |-> part_no.val]
        shipname == decode_string(Slice(bin, 40, 160))
        ship     == Field(bin, 40, 48)
        vendor   == decode_string(Slice(bin, 48, 90))
        callsign == decode_string(Slice(bin, 90, 132))
        bow      == Field(bin, 132, 141)
        stern    == Field(bin, 141, 150)
        port     == Field(bin, 150, 156)
        starb    == Field(bin, 156, 162)
    IN  IF ~AllOk(<<repeat, mmsi, part_no>>) THEN None
        ELSE IF part_no.val = 0
        THEN IF ~shipname.ok THEN None
             ELSE [msg_type |-> msg_type, repeat |-> repeat.val, mmsi |-> mmsi.val,
                   part_no |-> part_no.val, shipname |-> shipname.val]
        ELSE IF part_no.val = 1
        THEN IF ~AllOk(<<ship, vendor, callsign, bow, stern, port, starb>>) THEN None
             ELSE [msg_type |-> msg_type, repeat |-> repeat.val, mmsi |-> mmsi.val,
                   part_no |-> part_no.val, ship_type |-> ship.val,
                   vendor_id |-> vendor.val, callsign |-> callsign.val,
                   to_bow |-> bow.val, to_stern |-> stern.val,
                   to_port |-> port.val, to_starboard |-> starb.val]
        ELSE head

\* the if/elif chain on msg_type
Dispatch(bin, msg_type) ==
    IF msg_type \in {1, 2, 3} THEN PositionA(bin, msg_type)
    ELSE IF msg_type = 5 THEN StaticVoyage(bin, msg_type)
    ELSE IF msg_type = 18 THEN PositionB(bin, msg_type)
    ELSE IF msg_type = 24 THEN StaticData(bin, msg_type)
    ELSE [msg_type |-> msg_type]

\* any exception in the body gives None
decode_payload(pl) ==
    LET bin      == ToBinary(pl)
        msg_type == Field(bin, 0, 6)
    IN  IF ~msg_type.ok THEN None ELSE Dispatch(bin, msg_type.val)

(***************************************************************************)
(* parse_nmea                                                              *)
(***************************************************************************)
\* s.split(sep) for a one-character sep
RECURSIVE Split(_, _)
Split(s, sep) ==
    LET hits == {i \in 1..Len(s) : s[i] = sep}
    IN  IF hits = {} THEN <<s>>
        ELSE LET i == CHOOSE h \in hits : \A g \in hits : h <= g
             IN  <<SubSeq(s, 1, i - 1)>> \o Split(SubSeq(s, i + 1, Len(s)), sep)

IsDigit(c) == c \in 48..57

RECURSIVE DecimalVal(_)
DecimalVal(s) ==
    IF Len(s) = 0 THEN 0
    ELSE IF s[Len(s)] = 95 THEN DecimalVal(SubSeq(s, 1, Len(s) - 1))
    ELSE 10 * DecimalVal(SubSeq(s, 1, Len(s) - 1)) + (s[Len(s)] - 48)

\* int(s) for s over ASCII: whitespace around, a sign, digits that single
\* underscores may separate; anything else is a ValueError
PyInt(s) ==
    LET t    == Strip(s, PyWhitespace)
        sgn  == Len(t) > 0 /\ t[1] \in {43, 45}
        digs == IF sgn THEN Tail(t) ELSE t
        n    == Len(digs)
    IN  IF \/ n = 0
           \/ \E i \in 1..n : ~IsDigit(digs[i]) /\ digs[i] # 95
           \/ digs[1] = 95 \/ digs[n] = 95
           \/ \E i \in 1..(n - 1) : digs[i] = 95 /\ digs[i + 1] = 95
        THEN Raised
        ELSE Ok(IF sgn /\ t[1] = 45 THEN -DecimalVal(digs) ELSE DecimalVal(digs))

\* message.startswith('!') accepting '$' as well
StartsWithBangOrDollar(msg) == Len(msg) > 0 /\ msg[1] \in {33, 36}

\* message.startswith('!')
StartsWithBang(msg) == Len(msg) > 0 /\ msg[1] = 33

\* a dict is true when it is not empty, None is false
Truthy(d) == d # None /\ DOMAIN d # {}

\* AttachDecoded with a failed decode failing the sentence
AttachDecodedOrFail(sentence, decoded_data) ==
    IF Truthy(decoded_data)
    THEN [k \in DOMAIN sentence \cup {"decoded"} |->
            IF k = "decoded" THEN decoded_data ELSE sentence[k]]
    ELSE None

\* if decoded_data: parsed['decoded'] = decoded_data
AttachDecoded(sentence, decoded_data) ==
    IF Truthy(decoded_data)
    THEN [k \in DOMAIN sentence \cup {"decoded"} |->
            IF k = "decoded" THEN decoded_data ELSE sentence[k]]
    ELSE sentence

\* any exception in the body gives None
parse_nmea(msg) ==
    LET message_parts == Split(msg, 42)
        fields        == Split(message_parts[1], 44)
        count         == PyInt(fields[2])
        number        == PyInt(fields[3])
        fill          == IF fields[7] # <<>> THEN PyInt(fields[7]) ELSE Ok(0)
    IN  IF ~StartsWithBang(msg) THEN None
        ELSE IF Len(message_parts) # 2 THEN None
        ELSE IF Len(fields) < 7 THEN None
        ELSE IF ~AllOk(<<count, number, fill>>) THEN None
        ELSE AttachDecoded(
                [message_type |-> fields[1], fragment_count |-> count.val,
                 fragment_number |-> number.val, message_id |-> fields[4],
                 channel |-> fields[5], payload |-> fields[6],
                 fill_bits |-> fill.val, checksum |-> message_parts[2]],
                decode_payload(fields[6]))

(***************************************************************************)
(* process_message                                                         *)
(***************************************************************************)
MQTT_TOPIC == "ais/data"

\* UTF-8: the bytes 0x80..0xBF continue a character, and the first byte of a
\* character tells its size (0: no first byte)
IsContinuation(x) == x \in 128..191

Utf8Size(b1) ==
    IF b1 < 128 THEN 1
    ELSE IF b1 \in 194..223 THEN 2
    ELSE IF b1 \in 224..239 THEN 3
    ELSE IF b1 \in 240..244 THEN 4 ELSE 0

\* the character that starts at b[i] is well formed
Utf8WellFormed(b, i) ==
    LET size == Utf8Size(b[i])
        lo2  == IF b[i] = 224 THEN 160 ELSE IF b[i] = 240 THEN 144 ELSE 128
        hi2  == IF b[i] = 237 THEN 159 ELSE IF b[i] = 244 THEN 143 ELSE 191
    IN  /\ size > 0 /\ i + size - 1 <= Len(b)
        /\ size >= 2 => b[i + 1] \in lo2..hi2
        /\ \A j \in (i + 2)..(i + size - 1) : IsContinuation(b[j])
        /\ i + size <= Len(b) => ~IsContinuation(b[i + size])

Utf8CodePoint(b, i) ==
    LET size == Utf8Size(b[i])
    IN  IF size = 1 THEN b[i]
        ELSE IF size = 2 THEN (b[i] - 192) * 64 + (b[i + 1] - 128)
        ELSE IF size = 3
        THEN (b[i] - 224) * 4096 + (b[i + 1] - 128) * 64 + (b[i + 2] - 128)
        ELSE (b[i] - 240) * 262144 + (b[i + 1] - 128) * 4096
             + (b[i + 2] - 128) * 64 + (b[i + 3] - 128)

IsCodePoint(x) == x >= 0

\* bytes.decode('utf-8'): the code points, or UnicodeDecodeError
Utf8Decode(b) ==
    LET firsts == {i \in 1..Len(b) : ~IsContinuation(b[i])}
        points == [i \in 1..Len(b) |->
                      IF IsContinuation(b[i]) THEN -1 ELSE Utf8CodePoint(b, i)]
    IN  IF Len(b) = 0 THEN Ok(<<>>)
        ELSE IF IsContinuation(b[1]) \/ \E i \in firsts : ~Utf8WellFormed(b, i)
        THEN Raised
        ELSE Ok(SelectSeq(points, IsCodePoint))

\* the keys of a decoded message in the order decode_payload inserts them
DecodedKeys(d) ==
    IF d.msg_type \in {1, 2, 3}
    THEN <<"msg_type", "repeat", "mmsi", "nav_status", "rot", "sog", "pos_accuracy",
           "longitude", "latitude", "cog", "true_heading", "timestamp">>
    ELSE IF d.msg_type = 5
    THEN <<"msg_type", "repeat", "mmsi", "ais_version", "imo", "callsign", "shipname",
           "ship_type", "to_bow", "to_stern", "to_port", "to_starboard">>
    ELSE IF d.msg_type = 18
    THEN <<"msg_type", "repeat", "mmsi", "sog", "pos_accuracy", "longitude", "latitude",
           "cog", "true_heading", "timestamp">>
    ELSE IF d.msg_type = 24
    THEN IF d.part_no = 0 THEN <<"msg_type", "repeat", "mmsi", "part_no", "shipname">>
         ELSE IF d.part_no = 1
         THEN <<"msg_type", "repeat", "mmsi", "part_no", "ship_type", "vendor_id",
                "callsign", "to_bow", "to_stern", "to_port", "to_starboard">>
         ELSE <<"msg_type", "repeat", "mmsi", "part_no">>
    ELSE <<"msg_type">>

\* the keys of a sentence in the order parse_nmea inserts them
SentenceKeys(p) ==
    <<"message_type", "fragment_count", "fragment_number", "message_id", "channel",
      "payload", "fill_bits", "checksum">>
    \o (IF "decoded" \in DOMAIN p THEN <<"decoded">> ELSE <<>>)

\* the JSON value of one entry: a string, a literal, a number
JsonValue(k, v) ==
    IF k \in {"message_type", "message_id", "channel", "payload", "checksum",
              "callsign", "shipname", "vendor_id"}
    THEN [string |-> v]
    ELSE IF k = "pos_accuracy" THEN [literal |-> IF v THEN "true" ELSE "false"]
    ELSE [number |-> v]

JsonObject(d, keys) ==
    [object |-> [i \in 1..Len(keys) |-> [key |-> keys[i], value |-> JsonValue(keys[i], d[keys[i]])]]]

\* json.dumps of what parse_nmea returned: the members in insertion order
JsonDumps(p) ==
    IF p = None THEN [literal |-> "null"]
    ELSE [object |->
            [i \in 1..Len(SentenceKeys(p)) |->
                LET k == SentenceKeys(p)[i]
                IN  [key |-> k,
                     value |-> IF k = "decoded"
                               THEN JsonObject(p.decoded, DecodedKeys(p.decoded))
                               ELSE JsonValue(k, p[k])]]]

\* ShouldPublish for a publish call on every line
PublishAlways(parsed_data) == TRUE

\* if parsed_data:
ShouldPublish(parsed_data) == Truthy(parsed_data)

\* one call of process_message: the publish calls made and what was logged;
\* pub_ok says whether mqtt_client.publish returns or raises.  No exception
\* leaves it.
process_message(bytes, pub_ok) ==
    LET decoded_text == Utf8Decode(bytes)
        msg          == Strip(decoded_text.val, PyWhitespace)
        parsed_data  == parse_nmea(msg)
        call         == [topic |-> MQTT_TOPIC, payload |-> JsonDumps(parsed_data)]
    IN  IF ~decoded_text.ok
        THEN [raised |-> FALSE, calls |-> <<>>, outcome |-> "undecodable"]
        ELSE IF ShouldPublish(parsed_data)
        THEN [raised |-> FALSE, calls |-> <<call>>,
              outcome |-> IF pub_ok THEN "published" ELSE "publish_error"]
        ELSE [raised |-> FALSE, calls |-> <<>>, outcome |-> "unparsed"]

(***************************************************************************)
(* run                                                                     *)
(***************************************************************************)
\* __init__
NewBridge == [udp_socket |-> "None", mqtt_client |-> "None"]

\* finally: close the socket and disconnect the client, if they were made
Finally(b) ==
    [udp_socket |-> IF b.udp_socket = "None" THEN "None" ELSE "closed",
     mqtt_client |-> IF b.mqtt_client = "None" THEN "None" ELSE "disconnected"]

\* the handler of the loop leaving the loop
LoopHandlerBreaks == "stopped"

\* except Exception in the loop: log and continue
LoopHandler == "recv"

(***************************************************************************)
(* Inputs of the decoder                                                   *)
(***************************************************************************)
\* the longest payload tried, in characters (45 characters carry 270 bits)
MaxChars == 46

Rep(c, n) == [i \in 1..n |-> c]

\* '0' '1' '2' '3' '4' '5' 'B' 'H' 'w': msg_type 0, 1, 2, 3, 4, 5, 18, 24, 63
TypeChars == {48, 49, 50, 51, 52, 53, 66, 72, 119}

\* '0' '4' '8' 'P' 'w': the 6-bit values 0, 4, 8, 32, 63
FillChars == {48, 52, 56, 80, 119}

\* '/' ' ' 'x' and U+00E9: they map to -1, -16, 64 and 177
BadChars == {47, 32, 120, 233}

UniformPayloads ==
    {<<>>} \cup {<<t>> \o Rep(f, n - 1) : t \in TypeChars, f \in FillChars, n \in 1..MaxChars}

\* one character outside the alphabet at position p of an otherwise valid payload
BadPayloads ==
    {[i \in 1..n |-> IF i = p THEN b ELSE IF i = 1 THEN t ELSE 48] :
        t \in {49, 72, 119}, b \in BadChars, n \in {1, 2, 7, 23, 28}, p \in {1, 2, 7, 23}}

RECURSIVE IntToBits(_, _)
IntToBits(n, w) ==
    IF w = 0 THEN <<>> ELSE IntToBits(n \div 2, w - 1) \o <<n % 2>>

RECURSIVE SixBitsToChars(_)
SixBitsToChars(bits) ==
    IF Len(bits) < 6 THEN <<>>
    ELSE LET v == 32 * bits[1] + 16 * bits[2] + 8 * bits[3] + 4 * bits[4]
                  + 2 * bits[5] + bits[6]
         IN  <<IF v < 40 THEN v + 48 ELSE v + 56>> \o SixBitsToChars(SubSeq(bits, 7, Len(bits)))

LonSamples ==
    {0, 1, 108000000, 108600000, 134217727, 134217728, 160435456, 268435455}
LatSamples ==
    {0, 54000000, 54600000, 67108863, 67108864, 80217728, 134217727}

\* 168-bit position reports (type 1 and type 18) carrying chosen raw coordinates
CoordPayloads ==
    {SixBitsToChars(IntToBits(t, 6) \o Rep(0, (IF t = 18 THEN 57 ELSE 61) - 6)
                    \o IntToBits(lon, 28) \o IntToBits(lat, 27)
                    \o Rep(1, 168 - (IF t = 18 THEN 112 ELSE 116))) :
        t \in {1, 3, 18}, lon \in LonSamples, lat \in LatSamples}

Payloads == UniformPayloads \cup BadPayloads \cup CoordPayloads

(***************************************************************************)
(* Specifications                                                          *)
(***************************************************************************)
\* decode_payload applied to one payload
InitDecode ==
    /\ payload \in Payloads /\ decoded = Pending
    /\ binary = <<>> /\ text = Pending
    /\ message = <<>> /\ parsed = Pending
    /\ pc = "idle" /\ data = <<>> /\ received = <<>>
    /\ published = <<>> /\ outcomes = <<>> /\ bridge = NewBridge

DecodePayload ==
    /\ decoded = Pending
    /\ decoded' = decode_payload(payload)
    /\ UNCHANGED <<payload, binary, text, message, parsed,
                   pc, data, received, published, outcomes, bridge>>

NextDecode == DecodePayload

SpecDecode == InitDecode /\ [][NextDecode]_vars

(***************************************************************************)
(* Properties of decode_payload                                            *)
(***************************************************************************)
\* the 6-bit value the armoring rule gives a character
SixBit(c) == IF c - 48 > 40 THEN c - 56 ELSE c - 48

InAlphabet(pl) == \A i \in 1..Len(pl) : SixBit(pl[i]) \in 0..63

KnownTypes == {1, 2, 3, 5, 18, 24}

\* part_no of a type 24 payload: bits 38 and 39, in its 7th character
PartOf(pl) == (SixBit(pl[7]) \div 4) % 4

\* the highest bit offset of the field layout the payload's type selects
RequiredBits(pl) ==
    LET t == SixBit(pl[1])
    IN  CASE t \in {1, 2, 3} -> 143
          [] t = 5 -> 270
          [] t = 18 -> 139
          [] t = 24 -> IF Len(pl) < 7 \/ PartOf(pl) = 0 THEN 160
                       ELSE IF PartOf(pl) = 1 THEN 162 ELSE 0
          [] OTHER -> 0

Truncated(pl) ==
    /\ Len(pl) > 0 /\ InAlphabet(pl)
    /\ SixBit(pl[1]) \in KnownTypes
    /\ 6 * Len(pl) < RequiredBits(pl)

\* C1: a payload over the alphabet that is shorter than the layout of its
\* type is not decoded: decode_payload returns None for it.
C1_TruncatedFails ==
    (decoded # Pending /\ Truncated(payload)) => decoded = None

\* C2: a payload with a character that maps outside 0..63 is not decoded:
\* decode_payload returns None for it.
C2_MalformedFails ==
    (decoded # Pending /\ ~InAlphabet(payload)) => decoded = None

IsPosition(d) == IsDict(d) /\ d.msg_type \in {1, 2, 3, 18}

\* C3 as stated: in every position report returned, the longitude numerator
\* is in [-108000000, 108600000) and the latitude numerator in
\* [-54000000, 54600000), in units of 1/600000 degree.
C3_CoordinatesInGeographicRange ==
    IsPosition(decoded) =>
        /\ decoded.longitude.den = 600000 /\ decoded.latitude.den = 600000
        /\ -108000000 <= decoded.longitude.num /\ decoded.longitude.num < 108600000
        /\ -54000000 <= decoded.latitude.num /\ decoded.latitude.num < 54600000

\* C3 amended: in every position report returned, the longitude numerator is
\* in [-2^27, 2^27) and the latitude numerator in [-2^26, 2^26), in units of
\* 1/600000 degree: the whole range of the signed 28-bit and 27-bit fields.
C3_CoordinatesInFieldRange ==
    IsPosition(decoded) =>
        /\ decoded.longitude.den = 600000 /\ decoded.latitude.den = 600000
        /\ -134217728 <= decoded.longitude.num /\ decoded.longitude.num < 134217728
        /\ -67108864 <= decoded.latitude.num /\ decoded.latitude.num < 67108864

\* a position report whose latitude field has its sign bit set and whose
\* longitude is the 181 degree mark
C3_Witness ==
    /\ IsPosition(decoded) /\ InAlphabet(payload)
    /\ decoded.longitude.num = 108600000
    /\ decoded.latitude.num = -67108864

\* the raw coordinate fields of a position report, read off the payload
LonOffset(pl) == IF SixBit(pl[1]) = 18 THEN 57 ELSE 61
RawLon(pl) == Field(ToBinary(pl), LonOffset(pl), LonOffset(pl) + 28).val
RawLat(pl) == Field(ToBinary(pl), LonOffset(pl) + 28, LonOffset(pl) + 55).val

\* the two's-complement reading of an unsigned field whose sign bit weighs half
TwosComplement(r, half) == IF r < half THEN r ELSE r - 2 * half

\* C4: the value divided by 600000 is the two's-complement reading of the raw
\* field: 28 bits for the longitude, 27 bits for the latitude.
C4_SignedBeforeScaling ==
    IsPosition(decoded) =>
        /\ decoded.longitude = Div(TwosComplement(RawLon(payload), 134217728), 600000)
        /\ decoded.latitude = Div(TwosComplement(RawLat(payload), 67108864), 600000)

\* raw longitude 0x8000000 read as -2^27 and raw latitude 0x7FFFFFF read as -1
C4_Witness ==
    /\ IsPosition(decoded) /\ InAlphabet(payload)
    /\ RawLon(payload) = 134217728 /\ decoded.longitude.num = -134217728
    /\ RawLat(payload) = 134217727 /\ decoded.latitude.num = -1

\* C7: a non-empty payload over the alphabet whose type is none of
\* 1, 2, 3, 5, 18, 24 is decoded to a result of msg_type alone.
C7_UnrecognizedIsMinimal ==
    (/\ decoded # Pending /\ Len(payload) > 0 /\ InAlphabet(payload)
     /\ SixBit(payload[1]) \notin KnownTypes)
        => decoded = [msg_type |-> SixBit(payload[1])]

\* type 63 with more bits behind it than any layout reads
C7_Witness ==
    /\ Len(payload) = 45 /\ InAlphabet(payload)
    /\ decoded = [msg_type |-> 63]

(***************************************************************************)
(* decode_string applied to one bit range                                  *)
(***************************************************************************)
\* the most whole 6-bit groups in a range tried
MaxGroups == 3

\* the 6-bit groups tried: a terminator, 'A', ' ', '!', '_' and '?'
GroupValues == {0, 1, 32, 33, 31, 63}

Group(v) == [i \in 1..6 |-> IF (v \div (2 ^ (6 - i))) % 2 = 1 THEN "1" ELSE "0"]

\* what is left of a range that does not end on a group boundary
Tails ==
    {<<>>, <<"0">>, <<"0", "0", "0">>, <<"0", "1">>, <<"1", "0", "0", "0", "0">>,
     <<"0", "0", "0", "0", "0">>}

RECURSIVE GroupSeqs(_)
GroupSeqs(n) ==
    IF n = 0 THEN {<<>>}
    ELSE GroupSeqs(n - 1)
         \cup {Group(v) \o s : v \in GroupValues, s \in {x \in GroupSeqs(n - 1) : Len(x) = 6 * (n - 1)}}

BitRanges == {s \o t : s \in GroupSeqs(MaxGroups), t \in Tails}

InitString ==
    /\ binary \in BitRanges /\ text = Pending
    /\ payload = <<>> /\ decoded = Pending
    /\ message = <<>> /\ parsed = Pending
    /\ pc = "idle" /\ data = <<>> /\ received = <<>>
    /\ published = <<>> /\ outcomes = <<>> /\ bridge = NewBridge

DecodeString ==
    /\ text = Pending
    /\ text' = decode_string(binary)
    /\ UNCHANGED <<payload, decoded, binary, message, parsed,
                   pc, data, received, published, outcomes, bridge>>

NextString == DecodeString

SpecString == InitString /\ [][NextString]_vars

\* the groups of a range, the last one short when the range is no multiple of 6
NGroups(bin) == (Len(bin) + 5) \div 6
GroupAt(bin, k) == SubSeq(bin, 6 * k - 5, Min(6 * k, Len(bin)))
AllZero(g) == \A i \in 1..Len(g) : g[i] = "0"
Unsigned(g) == BitsVal(g)

\* how many groups precede the first all-zero group
Leading(bin) ==
    LET zeros == {k \in 1..NGroups(bin) : AllZero(GroupAt(bin, k))}
    IN  IF zeros = {} THEN NGroups(bin)
        ELSE (CHOOSE k \in zeros : \A j \in zeros : k <= j) - 1

LeadingChars(bin) ==
    [k \in 1..Leading(bin) |->
        LET c == Unsigned(GroupAt(bin, k)) IN IF c < 32 THEN c + 64 ELSE c]

Blank == {9, 10, 11, 12, 13, 32}

\* s without the whitespace around it
Trimmed(s) ==
    LET keep == {i \in 1..Len(s) : s[i] \notin Blank}
    IN  IF keep = {} THEN <<>>
        ELSE SubSeq(s, CHOOSE i \in keep : \A j \in keep : i <= j,
                       CHOOSE i \in keep : \A j \in keep : i >= j)

\* C8: decode_string never fails; it returns the characters of the groups
\* before the first all-zero group, c + 64 for c < 32, without the whitespace
\* around them; the result never ends in '@' or whitespace, and an empty
\* range gives the empty string.
C8_DecodeString ==
    text # Pending =>
        /\ text.ok
        /\ text.val = Trimmed(LeadingChars(binary))
        /\ Len(text.val) > 0 => text.val[Len(text.val)] \notin Blank \cup {64}
        /\ Len(binary) = 0 => text.val = <<>>

\* " A " before a terminator: three groups read, the blanks around 'A' removed
C8_Witness ==
    /\ binary = Group(32) \o Group(1) \o Group(32) \o <<"0", "0", "0">>
    /\ text = Ok(<<65>>)

(***************************************************************************)
(* parse_nmea applied to one line                                          *)
(***************************************************************************)
RECURSIVE Join(_, _)
Join(fs, sep) ==
    IF Len(fs) = 0 THEN <<>>
    ELSE IF Len(fs) = 1 THEN fs[1]
    ELSE fs[1] \o <<sep>> \o Join(Tail(fs), sep)

\* "!AIVDM", "$AIVDM", "AIVDM"
Tags == {<<33, 65, 73, 86, 68, 77>>, <<36, 65, 73, 86, 68, 77>>, <<65, 73, 86, 68, 77>>}

\* "1", "", "x", "-1", " 2", "1.0", "1_0", "1__0"
CountTexts ==
    {<<49>>, <<>>, <<120>>, <<45, 49>>, <<32, 50>>, <<49, 46, 48>>, <<49, 95, 48>>,
     <<49, 95, 95, 48>>}

\* "1", "", "a"
NumberTexts == {<<49>>, <<>>, <<97>>}

\* "0", "", "5", "z"
FillTexts == {<<48>>, <<>>, <<53>>, <<122>>}

\* "15M67FC000G?ufbE`FepT@3n00Sa", a type 1 position report of 168 bits
SamplePayload ==
    <<49, 53, 77, 54, 55, 70, 67, 48, 48, 48, 71, 63, 117, 102, 98, 69, 96, 70, 101,
      112, 84, 64, 51, 110, 48, 48, 83, 97>>

\* the sample, nothing, "/", "w", and type 1 payloads of 22 and 23 characters
PayloadTexts ==
    {SamplePayload, <<>>, <<47>>, <<119>>, <<49>> \o Rep(48, 21), <<49>> \o Rep(48, 22)}

\* what follows the fields: "*5C", nothing, "*", "*5C*7"
Endings == {<<42, 53, 67>>, <<>>, <<42>>, <<42, 53, 67, 42, 55>>}

\* the most fields a line tried has
MaxFields == 8

\* the first n of the fields tag, count, number, id, channel, payload, fill, extra
Lines ==
    {Join(SubSeq(<<tag, cnt, num, <<>>, <<65>>, pl, fill, <<48>>, <<48>>, <<48>>>>, 1, n), 44) \o e :
        tag \in Tags, cnt \in CountTexts, num \in NumberTexts, pl \in PayloadTexts,
        fill \in FillTexts, n \in 6..MaxFields, e \in Endings}

InitParse ==
    /\ message \in Lines /\ parsed = Pending
    /\ payload = <<>> /\ decoded = Pending
    /\ binary = <<>> /\ text = Pending
    /\ pc = "idle" /\ data = <<>> /\ received = <<>>
    /\ published = <<>> /\ outcomes = <<>> /\ bridge = NewBridge

ParseNmea ==
    /\ parsed = Pending
    /\ parsed' = parse_nmea(message)
    /\ UNCHANGED <<payload, decoded, binary, text, message,
                   pc, data, received, published, outcomes, bridge>>

NextParse == ParseNmea

SpecParse == InitParse /\ [][NextParse]_vars

(***************************************************************************)
(* Properties of parse_nmea                                                *)
(***************************************************************************)
Stars(msg) == {i \in 1..Len(msg) : msg[i] = 42}

\* the text before the only '*', and the text after it
BodyOf(msg) == SubSeq(msg, 1, (CHOOSE i \in Stars(msg) : TRUE) - 1)
ChecksumOf(msg) == SubSeq(msg, (CHOOSE i \in Stars(msg) : TRUE) + 1, Len(msg))

Commas(b) == {i \in 1..Len(b) : b[i] = 44}
NFields(b) == Cardinality(Commas(b)) + 1

\* the position of the k-th comma of b; 0 and Len(b) + 1 stand for the two ends
CommaAt(b, k) ==
    IF k = 0 THEN 0
    ELSE IF k > Cardinality(Commas(b)) THEN Len(b) + 1
    ELSE CHOOSE i \in Commas(b) : Cardinality({j \in Commas(b) : j <= i}) = k

\* the k-th comma-separated field of b, counted from 1
FieldText(b, k) == SubSeq(b, CommaAt(b, k - 1) + 1, CommaAt(b, k) - 1)

\* s is the text of an integer: an optional sign and digits (single underscores
\* may group them), whitespace allowed around it
IsIntegerText(s) ==
    LET t == Trimmed(s)
        u == IF Len(t) > 0 /\ t[1] \in {43, 45} THEN SubSeq(t, 2, Len(t)) ELSE t
    IN  /\ Len(u) > 0
        /\ \A i \in 1..Len(u) :
              \/ u[i] \in 48..57
              \/ u[i] = 95 /\ 1 < i /\ i < Len(u) /\ u[i - 1] \in 48..57 /\ u[i + 1] \in 48..57

\* the structural violations of a line
Malformed(msg) ==
    \/ Len(msg) = 0 \/ msg[1] # 33
    \/ Cardinality(Stars(msg)) # 1
    \/ NFields(BodyOf(msg)) < 7
    \/ ~IsIntegerText(FieldText(BodyOf(msg), 2))
    \/ ~IsIntegerText(FieldText(BodyOf(msg), 3))
    \/ /\ FieldText(BodyOf(msg), 7) # <<>>
       /\ ~IsIntegerText(FieldText(BodyOf(msg), 7))

C6_DecodeFailureKeepsSentence ==
    (parsed # Pending /\ ~Malformed(message)) =>
        LET b == BodyOf(message)
            d == decode_payload(FieldText(b, 6))
        IN  /\ parsed # None
            /\ parsed.message_type = FieldText(b, 1)
            /\ parsed.fragment_count = PyInt(FieldText(b, 2)).val
            /\ parsed.fragment_number = PyInt(FieldText(b, 3)).val
            /\ parsed.message_id = FieldText(b, 4)
            /\ parsed.channel = FieldText(b, 5)
            /\ parsed.payload = FieldText(b, 6)
            /\ parsed.fill_bits = (IF FieldText(b, 7) = <<>> THEN 0
                                   ELSE PyInt(FieldText(b, 7)).val)
            /\ parsed.checksum = ChecksumOf(message)
            /\ d = None => DOMAIN parsed =
                   {"message_type", "fragment_count", "fragment_number", "message_id",
                    "channel", "payload", "fill_bits", "checksum"}
            /\ d # None => ("decoded" \in DOMAIN parsed /\ parsed.decoded = d)

\* a valid line whose payload is a type 1 report of 22 characters, too short
\* to decode: the sentence is returned without a decoded entry
C6_Witness ==
    /\ parsed \notin {Pending, None}
    /\ ~Malformed(message)
    /\ Len(FieldText(BodyOf(message), 6)) = 22
    /\ parsed.payload = FieldText(BodyOf(message), 6)
    /\ "decoded" \notin DOMAIN parsed

(***************************************************************************)
(* run: the receive loop                                                   *)
(***************************************************************************)
\* the most recvfrom calls of one run
MaxDatagrams == 2

\* "!AIVDM,1,1,,A,<payload>,0*5C"
Sentence(pl) ==
    Join(<<<<33, 65, 73, 86, 68, 77>>, <<49>>, <<49>>, <<>>, <<65>>, pl, <<48>>>>, 44)
        \o <<42, 53, 67>>

\* the sample sentence with "\r\n" behind it; two bytes that are no UTF-8;
\* "hello"; sentences with an empty payload, with "/", with U+00E9 (two
\* bytes), and with the 7-character type 24 payload "H000000"
Datagrams ==
    {Sentence(SamplePayload) \o <<13, 10>>,
     <<255, 33>>,
     <<104, 101, 108, 108, 111>>,
     Sentence(<<>>),
     Sentence(<<47>>),
     Sentence(<<195, 169>>),
     Sentence(<<72>> \o Rep(48, 6))}

RecvRaised == [ok |-> FALSE, val |-> <<>>]

Init ==
    /\ pc = "start" /\ bridge = NewBridge
    /\ data = <<>> /\ received = <<>> /\ published = <<>> /\ outcomes = <<>>
    /\ payload = <<>> /\ decoded = Pending
    /\ binary = <<>> /\ text = Pending
    /\ message = <<>> /\ parsed = Pending

Frame == UNCHANGED <<payload, decoded, binary, text, message, parsed>>

\* setup_udp_socket: the socket is bound, or the exception leaves run
SetupUdpSocket ==
    /\ pc = "start"
    /\ \/ /\ bridge' = [bridge EXCEPT !.udp_socket = "bound"]
          /\ pc' = "setup_mqtt"
       \/ /\ bridge' = Finally(bridge)
          /\ pc' = "setup_failed"
    /\ UNCHANGED <<data, received, published, outcomes>>
    /\ Frame

\* setup_mqtt: the client is made and connects, or the exception leaves run
SetupMqtt ==
    /\ pc = "setup_mqtt"
    /\ \/ /\ bridge' = [bridge EXCEPT !.mqtt_client = "connected"]
          /\ pc' = "recv"
       \/ /\ bridge' = Finally([bridge EXCEPT !.mqtt_client = "created"])
          /\ pc' = "setup_failed"
    /\ UNCHANGED <<data, received, published, outcomes>>
    /\ Frame

\* recvfrom returns a datagram
RecvFrom ==
    /\ pc = "recv" /\ Len(received) < MaxDatagrams
    /\ \E d \in Datagrams :
          /\ data' = d
          /\ received' = Append(received, Ok(d))
    /\ pc' = "process"
    /\ UNCHANGED <<published, outcomes, bridge>>
    /\ Frame

\* recvfrom raises: the handler of the loop logs it
RecvError ==
    /\ pc = "recv" /\ Len(received) < MaxDatagrams
    /\ received' = Append(received, RecvRaised)
    /\ outcomes' = Append(outcomes, "loop_error")
    /\ pc' = LoopHandler
    /\ UNCHANGED <<data, published, bridge>>
    /\ Frame

\* process_message(data)
ProcessMessage ==
    /\ pc = "process"
    /\ \E pub_ok \in BOOLEAN :
          LET r == process_message(data, pub_ok)
          IN  /\ published' = published \o r.calls
              /\ outcomes' = Append(outcomes, r.outcome)
              /\ pc' = IF r.raised THEN LoopHandler ELSE "recv"
    /\ UNCHANGED <<data, received, bridge>>
    /\ Frame

\* KeyboardInterrupt: "Shutting down...", then the finally block
Interrupt ==
    /\ pc \in {"start", "setup_mqtt", "recv", "process"}
    /\ pc' = "interrupted"
    /\ bridge' = Finally(bridge)
    /\ UNCHANGED <<data, received, published, outcomes>>
    /\ Frame

Next ==
    \/ SetupUdpSocket
    \/ SetupMqtt
    \/ RecvFrom
    \/ RecvError
    \/ ProcessMessage
    \/ Interrupt

Spec == Init /\ [][Next]_vars

(***************************************************************************)
(* Properties of the receive loop                                          *)
(***************************************************************************)
\* what one recvfrom result gives when it is handled alone: the sentence, the
\* publish calls, the outcomes that may be logged
SentenceOf(rcv) ==
    IF ~rcv.ok \/ ~Utf8Decode(rcv.val).ok THEN None
    ELSE parse_nmea(Strip(Utf8Decode(rcv.val).val, PyWhitespace))

PublicationsOf(rcv) ==
    IF SentenceOf(rcv) = None THEN <<>>
    ELSE <<[topic |-> "ais/data", payload |-> JsonDumps(SentenceOf(rcv))]>>

OutcomesOf(rcv) ==
    IF ~rcv.ok THEN {"loop_error"}
    ELSE {process_message(rcv.val, ok).outcome : ok \in BOOLEAN}

LoopPositions == {"start", "setup_mqtt", "recv", "process", "setup_failed", "interrupted"}

\* C9: no failure of a datagram ends the loop: run is left only by a failed
\* setup or by KeyboardInterrupt, after every datagram the loop is back at
\* recvfrom, and what is logged for a datagram is what is logged for it alone,
\* whatever failed before it.
C9_LoopSurvivesFailures ==
    /\ [](/\ pc \in LoopPositions
          /\ Len(outcomes) <= Len(received)
          /\ \A i \in 1..Len(outcomes) : outcomes[i] \in OutcomesOf(received[i]))
    /\ [][(pc \in {"recv", "process"} /\ pc' # "interrupted")
              => (pc' \in {"recv", "process"} /\ bridge' = bridge)]_vars

\* an undecodable datagram, then a sentence that is published, and the loop
\* back at recvfrom
C9_Witness ==
    /\ pc = "recv"
    /\ outcomes = <<"undecodable", "published">>
    /\ Len(published) = 1

RECURSIVE PublishedBy(_)
PublishedBy(rcvs) ==
    IF Len(rcvs) = 0 THEN <<>>
    ELSE PublishedBy(SubSeq(rcvs, 1, Len(rcvs) - 1)) \o PublicationsOf(rcvs[Len(rcvs)])

\* C10: each datagram handled adds at most one publish call: the serialized
\* sentence when parse_nmea returns one, with or without a decoded entry, and
\* nothing when parse_nmea returns None.
C10_AtMostOnePublish ==
    /\ published = PublishedBy(SubSeq(received, 1, Len(outcomes)))
    /\ Len(published) <= Len(outcomes)
    /\ \A i \in 1..Len(published) :
          /\ published[i].topic = "ais/data"
          /\ published[i].payload # JsonDumps(None)

\* a sentence with an empty payload published without a decoded entry, then
\* "hello", for which nothing is published
C10_Witness ==
    /\ Len(outcomes) = 2 /\ Len(published) = 1
    /\ received[1] = Ok(Sentence(<<>>))
    /\ received[2] = Ok(<<104, 101, 108, 108, 111>>)
    /\ Len(published[1].payload.object) = 8
    /\ outcomes[2] = "unparsed"

====
